---- MODULE Spec2Model ----
(***************************************************************************)
(* Model of src/src/Track.ts: one TrackGroup, its member TrackSingle       *)
(* tracks, the AudioSourceNode instances they hold and the audio clock.    *)
(*                                                                         *)
(* A track operation is an operator from a world record to a world record  *)
(* (the fields a call can touch), so that a method calling another method  *)
(* (start -> swap -> stop, playSource -> loadSource -> start) is the       *)
(* composition the code performs.  Each action applies one public call.    *)
(***************************************************************************)
EXTENDS Integers, Sequences, FiniteSets, TLC

(* ---- bounds ------------------------------------------------------------ *)
MaxTime == 2
MaxNodes == 3
MaxBeats == 2

(* ---- values ------------------------------------------------------------ *)
None == -1                       \* an undefined number
NoNode == 0                      \* an undefined AudioSourceNode
GroupGain == 0                   \* the TrackGroup's own gain node
Ext == 99                        \* an audio node outside the group
GroupName == "main"
Names == {"main", "a", "b"}
Paths == {"p"}
NoPath == ""
Delays == {None, 1}
OptDelays == {None, 0, 2}
Durations == {None, 1}
SwapTypes == {"inOut", "outIn", "cross", "cut"}
NodeIds == 1..(MaxNodes + 1)
GroupSelf == 0                   \* the TrackGroup, where a method returns it
BeatTypes == {"repeating", "precise", "exclude"}
EventTypes == {"startPlayback", "stopPlayback", "beat", "position", "silenced"}
Volumes == {0, 1}

\* the (type, origin, period) a caller creates beats with
BeatInputs ==
    { <<"repeating", 0, 1>>, <<"repeating", 1, 1>>, <<"precise", 1, None>>,
      <<"exclude", 1, 1>> }

\* an `options` argument; given = FALSE is `undefined`
NoOptions ==
    [given |-> FALSE, ramp |-> "none", delay |-> None, duration |-> None,
     swap |-> "none", swapDelay |-> None]

AdjustmentInputs ==
    {NoOptions} \cup
    { [given |-> TRUE, ramp |-> r, delay |-> d, duration |-> u,
       swap |-> "none", swapDelay |-> None] :
        r \in {"none"}, d \in OptDelays, u \in Durations }

SwapInputs ==
    {NoOptions} \cup
    { [given |-> TRUE, ramp |-> "none", delay |-> d, duration |-> u,
       swap |-> s, swapDelay |-> None] :
        d \in {0}, u \in {1}, s \in SwapTypes }

(* ---- state ------------------------------------------------------------- *)
VARIABLES
    tracks,      \* TrackGroup.tracks: name -> TrackSingle fields
    conn,        \* per AudioSourceNode: the nodes it is connected to
    buf,         \* per AudioSourceNode: the path loaded into it
    started,     \* calls of AudioSourceNode.start: [node, at]
    ramps,       \* gain automations pending: [gain, value, from, to, ramp]
    nextNode,    \* next AudioSourceNode instance
    nextTrack,   \* next TrackSingle instance
    now,         \* audioContext.currentTime
    last,        \* the call made by the last step and what it returned
    calls,       \* the stub methods the last step reached, with arguments
    beats,       \* the TrackBeat objects createBeat has returned, in order
    notified     \* the beat notifications delivered to listeners, in order

vars ==
    <<tracks, conn, buf, started, ramps, nextNode, nextTrack, now, last, calls,
      beats, notified>>

(* ---- ./defaults.js and ./automation.js --------------------------------- *)
startImmediate ==
    [given |-> TRUE, ramp |-> "exponential", delay |-> 0, duration |-> 0,
     swap |-> "none", swapDelay |-> None]

trackSwapDefault ==
    [given |-> TRUE, ramp |-> "exponential", delay |-> 0, duration |-> 0,
     swap |-> "outIn", swapDelay |-> 0]

Coalesce(a, b) == IF a # None THEN a ELSE b

buildOptions(options, defaultOptions) ==
    [given |-> TRUE,
     ramp |-> IF options.ramp # "none" THEN options.ramp ELSE defaultOptions.ramp,
     delay |-> Coalesce(options.delay, defaultOptions.delay),
     duration |-> Coalesce(options.duration, defaultOptions.duration),
     swap |-> IF options.swap # "none" THEN options.swap ELSE defaultOptions.swap,
     swapDelay |-> Coalesce(options.swapDelay, defaultOptions.swapDelay)]

\* automation(audioContext, param, value, options)
automation(W, gain, value, options) ==
    [W EXCEPT !.ramps = @ \cup
        {[gain |-> gain, value |-> value, from |-> W.now + options.delay,
          to |-> W.now + options.delay + options.duration, ramp |-> options.ramp]}]

(* ---- ./AudioSourceNode.js ---------------------------------------------- *)
\* new AudioSourceNode(audioContext, destination)
newAudioSourceNode(W, destination) ==
    [W EXCEPT !.conn[W.nextNode] = {destination},
              !.buf[W.nextNode] = NoPath,
              !.ret = W.nextNode,
              !.nextNode = @ + 1]

nodeClone(W, node) ==
    [W EXCEPT !.conn[W.nextNode] = W.conn[node],
              !.buf[W.nextNode] = W.buf[node],
              !.ret = W.nextNode,
              !.nextNode = @ + 1]

nodeLoad(W, node, path) == [W EXCEPT !.buf[node] = path]
nodeDisconnect(W, node) == [W EXCEPT !.conn[node] = {}]
nodeConnect(W, node, destination) == [W EXCEPT !.conn[node] = @ \cup {destination}]
nodeStart(W, node, at) == [W EXCEPT !.started = @ \cup {[node |-> node, at |-> at]}]

(* ---- TrackSingle ------------------------------------------------------- *)
CallArgs(fn, n, delay, options, args) ==
    [fn |-> fn, track |-> n, delay |-> delay, options |-> options, args |-> args]

Call(fn, n, delay, options) == CallArgs(fn, n, delay, options, <<>>)

LogArgs(W, fn, n, options, args) ==
    [W EXCEPT !.calls = Append(@, CallArgs(fn, n, None, options, args))]

Log(W, fn, n, delay, options) ==
    [W EXCEPT !.calls = Append(@, Call(fn, n, delay, options))]

\* the constructor: a gain node of its own and the given source, staged
TrackSingle(id, source) ==
    [id |-> id, loadedSource |-> source, playingSource |-> NoNode,
     isLoadSourceCalled |-> FALSE, gain |-> 1]

stop(W, n, delay, options) ==
    [Log(W, "stop", n, delay, options) EXCEPT !.ret = W.tracks[n].id]

swap(W, n, options) ==
    [Log(W, "swap", n, None, options) EXCEPT !.ret = W.tracks[n].id]

loadSource(W, n) ==
    newAudioSourceNode(Log(W, "loadSource", n, None, NoOptions), W.tracks[n].id)

\* the adjustment of a direct start
StartOptions_sum(delay, options) ==
    LET startOptions == buildOptions(options, startImmediate)
    IN  IF delay # None
        THEN [startOptions EXCEPT !.delay = @ + delay]
        ELSE startOptions

StartOptions(delay, options) ==
    LET startOptions == buildOptions(options, startImmediate)
    IN  IF delay # None /\ options.delay = None
        THEN [startOptions EXCEPT !.delay = @ + delay]
        ELSE startOptions

startClone_same(W, n) ==
    LET t == W.tracks[n]
    IN  IF t.playingSource # NoNode /\ t.loadedSource = NoNode
        THEN [W EXCEPT !.tracks[n].loadedSource = t.playingSource,
                       !.tracks[n].isLoadSourceCalled = TRUE]
        ELSE W

startClone(W, n) ==
    LET t == W.tracks[n]
    IN  IF t.playingSource # NoNode /\ t.loadedSource = NoNode
        THEN LET C == nodeClone(W, t.playingSource)
             IN  [C EXCEPT !.tracks[n].loadedSource = C.ret,
                           !.tracks[n].isLoadSourceCalled = TRUE]
        ELSE W

startSwap(W, n, delay, options, duration) ==
    LET swapOptions == buildOptions(options, trackSwapDefault)
        S == swap(W, n, swapOptions)
        D == IF duration # None
             THEN stop(S, n, Coalesce(options.delay, Coalesce(delay, 0)) + duration,
                       NoOptions)
             ELSE S
    IN  [D EXCEPT !.path = "swap", !.ret = W.tracks[n].id]

startDirect_keepConnections(W, n, delay, options, duration) ==
    LET t == W.tracks[n]
        src == t.loadedSource
        W1 == W
        W2 == [W1 EXCEPT !.tracks[n].playingSource = src]
        W3 == nodeConnect(W2, src, t.id)
        W4 == [W3 EXCEPT !.tracks[n].loadedSource = NoNode]
        startOptions == StartOptions(delay, options)
        currentGain == W4.tracks[n].gain
        W5 == [W4 EXCEPT !.tracks[n].gain = 0]
        W6 == nodeStart(W5, src, W5.now + startOptions.delay)
        W7 == automation(W6, t.id, currentGain, startOptions)
        W8 == IF duration # None
              THEN stop(W7, n, startOptions.delay + duration, NoOptions)
              ELSE W7
    IN  [W8 EXCEPT !.path = "direct", !.ret = t.id]

startDirect_zeroFirst(W, n, delay, options, duration) ==
    LET t == W.tracks[n]
        src == t.loadedSource
        W1 == nodeDisconnect(W, src)
        W2 == [W1 EXCEPT !.tracks[n].playingSource = src]
        W3 == nodeConnect(W2, src, t.id)
        W4 == [W3 EXCEPT !.tracks[n].loadedSource = NoNode]
        startOptions == StartOptions(delay, options)
        currentGain == 0
        W5 == [W4 EXCEPT !.tracks[n].gain = 0]
        W6 == nodeStart(W5, src, W5.now + startOptions.delay)
        W7 == automation(W6, t.id, currentGain, startOptions)
        W8 == IF duration # None
              THEN stop(W7, n, startOptions.delay + duration, NoOptions)
              ELSE W7
    IN  [W8 EXCEPT !.path = "direct", !.ret = t.id]

startDirect_keepStaged(W, n, delay, options, duration) ==
    LET t == W.tracks[n]
        src == t.loadedSource
        W1 == nodeDisconnect(W, src)
        W2 == [W1 EXCEPT !.tracks[n].playingSource = src]
        W3 == nodeConnect(W2, src, t.id)
        W4 == W3
        startOptions == StartOptions(delay, options)
        currentGain == W4.tracks[n].gain
        W5 == [W4 EXCEPT !.tracks[n].gain = 0]
        W6 == nodeStart(W5, src, W5.now + startOptions.delay)
        W7 == automation(W6, t.id, currentGain, startOptions)
        W8 == IF duration # None
              THEN stop(W7, n, startOptions.delay + duration, NoOptions)
              ELSE W7
    IN  [W8 EXCEPT !.path = "direct", !.ret = t.id]

startDirect(W, n, delay, options, duration) ==
    LET t == W.tracks[n]
        src == t.loadedSource
        W1 == nodeDisconnect(W, src)
        W2 == [W1 EXCEPT !.tracks[n].playingSource = src]
        W3 == nodeConnect(W2, src, t.id)
        W4 == [W3 EXCEPT !.tracks[n].loadedSource = NoNode]
        startOptions == StartOptions(delay, options)
        currentGain == W4.tracks[n].gain
        W5 == [W4 EXCEPT !.tracks[n].gain = 0]
        W6 == nodeStart(W5, src, W5.now + startOptions.delay)
        W7 == automation(W6, t.id, currentGain, startOptions)
        W8 == IF duration # None
              THEN stop(W7, n, startOptions.delay + duration, NoOptions)
              ELSE W7
    IN  [W8 EXCEPT !.path = "direct", !.ret = t.id]

\* nothing staged and nothing playing: a warning, and the track is returned
startWarn_throw(W, n) ==
    [W EXCEPT !.path = "warn", !.threw = TRUE]

startWarn(W, n) ==
    [W EXCEPT !.path = "warn", !.ret = W.tracks[n].id]

start_ignoreFlag(W, n, delay, options, duration) ==
    LET C == startClone(W, n)
        t == C.tracks[n]
    IN  IF t.loadedSource # NoNode
        THEN startDirect(C, n, delay, options, duration)
        ELSE startWarn(C, n)

start(W, n, delay, options, duration) ==
    LET C == startClone(W, n)
        t == C.tracks[n]
    IN  IF t.isLoadSourceCalled /\ t.loadedSource # NoNode
        THEN startSwap(C, n, delay, options, duration)
        ELSE IF t.loadedSource # NoNode
        THEN startDirect(C, n, delay, options, duration)
        ELSE startWarn(C, n)

playSource(W, n, path, options) ==
    LET L == loadSource(Log(W, "playSource", n, None, options), n)
        audioSource == L.ret
        S == start(L, n, 0, options, None)
    IN  [S EXCEPT !.ret = audioSource]

volume_everyTrack(W, n, v, options) ==
    [LogArgs(W, "volume", n, options, <<v>>)
        EXCEPT !.tracks = [m \in DOMAIN W.tracks |-> [W.tracks[m] EXCEPT !.gain = v]],
               !.ret = W.tracks[n].id]

volume(W, n, v, options) ==
    [LogArgs(W, "volume", n, options, <<v>>) EXCEPT !.ret = W.tracks[n].id]

loop(W, n, enabled) ==
    [LogArgs(W, "loop", n, NoOptions, <<enabled>>) EXCEPT !.ret = W.tracks[n].id]

jump(W, n, enabled) ==
    [LogArgs(W, "jump", n, NoOptions, <<enabled>>) EXCEPT !.ret = W.tracks[n].id]

\* the object createBeat returns: { time: 0, isCancelled: false, cancel }.
\* It is kept with the track and the arguments of the call that made it.
TrackBeat(id, beat) ==
    [track |-> id, type |-> beat[1], origin |-> beat[2], period |-> beat[3],
     time |-> 0, isCancelled |-> FALSE]

\* returns a new TrackBeat, the Len(beats)-th the caller holds
createBeat(W, n, beat) ==
    LET L == LogArgs(W, "createBeat", n, NoOptions, beat)
    IN  [L EXCEPT !.beats = Append(@, TrackBeat(W.tracks[n].id, beat)),
                  !.ret = Len(W.beats) + 1]

\* TrackBeat.cancel of the object createBeat returns: () => {}
beatCancel(W, h) == W

clearBeats(W, n) ==
    [LogArgs(W, "clearBeats", n, NoOptions, <<>>) EXCEPT !.ret = W.tracks[n].id]

\* `target` is the id of the track to synchronise to, GroupSelf for the group
syncPlayTo(W, n, target, options) ==
    [LogArgs(W, "syncPlayTo", n, options, <<target>>)
        EXCEPT !.ret = W.tracks[n].id]

syncStopTo(W, n, target, options) ==
    [LogArgs(W, "syncStopTo", n, options, <<target>>)
        EXCEPT !.ret = W.tracks[n].id]

listenFor(W, n, type) ==
    [LogArgs(W, "listenFor", n, NoOptions, <<type>>) EXCEPT !.ret = W.tracks[n].id]

(* ---- TrackGroup -------------------------------------------------------- *)
newTrack_unchecked(W, name, path, source) ==
    LET A == IF source = NoNode
             THEN LET N == newAudioSourceNode(W, GroupGain)
                  IN  IF path # NoPath THEN nodeLoad(N, N.ret, path) ELSE N
             ELSE [W EXCEPT !.ret = source]
        made == TrackSingle(A.nextTrack, A.ret)
    IN  [A EXCEPT !.tracks = [m \in DOMAIN A.tracks \cup {name} |->
                                 IF m = name THEN made ELSE A.tracks[m]],
                  !.nextTrack = @ + 1,
                  !.ret = made.id]

newTrack_replace(W, name, path, source) ==
    IF name = GroupName
    THEN [W EXCEPT !.threw = TRUE]
    ELSE LET A == IF source = NoNode
                  THEN LET N == newAudioSourceNode(W, GroupGain)
                       IN  IF path # NoPath THEN nodeLoad(N, N.ret, path) ELSE N
                  ELSE [W EXCEPT !.ret = source]
             track == TrackSingle(A.nextTrack, A.ret)
         IN  [A EXCEPT !.tracks = [m \in DOMAIN A.tracks \cup {name} |->
                                      IF m = name THEN track ELSE A.tracks[m]],
                       !.nextTrack = @ + 1,
                       !.ret = track.id]

newTrack(W, name, path, source) ==
    IF name = GroupName
    THEN [W EXCEPT !.threw = TRUE]
    ELSE IF name \in DOMAIN W.tracks
    THEN [W EXCEPT !.threw = TRUE]
    ELSE LET A == IF source = NoNode
                  THEN LET N == newAudioSourceNode(W, GroupGain)
                       IN  IF path # NoPath THEN nodeLoad(N, N.ret, path) ELSE N
                  ELSE [W EXCEPT !.ret = source]
             track == TrackSingle(A.nextTrack, A.ret)
         IN  [A EXCEPT !.tracks = [m \in DOMAIN A.tracks \cup {name} |->
                                      IF m = name THEN track ELSE A.tracks[m]],
                       !.nextTrack = @ + 1,
                       !.ret = track.id]

track_fallback(W, name) ==
    [W EXCEPT !.ret = IF name \in DOMAIN W.tracks THEN W.tracks[name].id
                      ELSE W.tracks[GroupName].id]

\* track(name): the member under name, or undefined
track(W, name) ==
    [W EXCEPT !.ret = IF name \in DOMAIN W.tracks THEN W.tracks[name].id ELSE None]

primaryTrack(W) == W.tracks[GroupName]

\* for (const track in this.tracks): the names in the order they were added,
\* which is the order of the tracks' construction
RECURSIVE ForIn(_, _)
ForIn(ts, names) ==
    IF names = {} THEN <<>>
    ELSE LET n == CHOOSE x \in names : \A m \in names : ts[x].id <= ts[m].id
         IN  <<n>> \o ForIn(ts, names \ {n})

memberNames(W) == ForIn(W.tracks, DOMAIN W.tracks)

\* the arguments a group method passes on
Args(delay, options, duration, target) ==
    [delay |-> delay, options |-> options, duration |-> duration, target |-> target]

\* this.tracks[track]?.<method>(...)
memberCall(W, n, method, a) ==
    CASE method = "start" -> start(W, n, a.delay, a.options, a.duration)
      [] method = "stop" -> stop(W, n, a.delay, a.options)
      [] method = "clearBeats" -> clearBeats(W, n)
      [] method = "syncPlayTo" -> syncPlayTo(W, n, a.target, a.options)
      [] method = "syncStopTo" -> syncStopTo(W, n, a.target, a.options)

RECURSIVE forEachTrack(_, _, _, _)
forEachTrack(W, order, method, a) ==
    IF order = <<>> THEN W
    ELSE forEachTrack(memberCall(W, Head(order), method, a), Tail(order), method, a)

groupStart_noDuration(W, delay, options, duration) ==
    [forEachTrack(W, memberNames(W), "start", Args(delay, options, None, None))
        EXCEPT !.ret = GroupSelf]

groupStart(W, delay, options, duration) ==
    [forEachTrack(W, memberNames(W), "start", Args(delay, options, duration, None))
        EXCEPT !.ret = GroupSelf]

groupStop(W, delay, options) ==
    [forEachTrack(W, memberNames(W), "stop", Args(delay, options, None, None))
        EXCEPT !.ret = GroupSelf]

groupPlaySource_all(W, path, options) ==
    LET P == playSource(W, GroupName, path, options)
        R == forEachTrack(P, Tail(memberNames(W)), "start",
                          Args(0, options, None, None))
    IN  [R EXCEPT !.ret = P.ret]

groupPlaySource(W, path, options) == playSource(W, GroupName, path, options)

groupLoadSource(W, path) == loadSource(W, GroupName)

groupSwap(W, options) == swap(W, GroupName, options)

groupVolume(W, v, options) ==
    [LogArgs(W, "volume", "(group)", options, <<v>>) EXCEPT !.ret = GroupSelf]

groupLoop(W, enabled) == [loop(W, GroupName, enabled) EXCEPT !.ret = GroupSelf]

groupJump(W, enabled) == [jump(W, GroupName, enabled) EXCEPT !.ret = GroupSelf]

groupCreateBeat(W, beat) == createBeat(W, GroupName, beat)

groupClearBeats(W) ==
    [forEachTrack(W, memberNames(W), "clearBeats", Args(None, NoOptions, None, None))
        EXCEPT !.ret = GroupSelf]

groupSyncPlayTo(W, target, options) ==
    [forEachTrack(W, memberNames(W), "syncPlayTo", Args(None, options, None, target))
        EXCEPT !.ret = GroupSelf]

groupSyncStopTo(W, target, options) ==
    [forEachTrack(W, memberNames(W), "syncStopTo", Args(None, options, None, target))
        EXCEPT !.ret = GroupSelf]

groupListenFor(W, type) ==
    [listenFor(W, GroupName, type) EXCEPT !.ret = GroupSelf]

(* ---- the steps --------------------------------------------------------- *)
World ==
    [tracks |-> tracks, conn |-> conn, buf |-> buf, started |-> started,
     ramps |-> ramps, nextNode |-> nextNode, nextTrack |-> nextTrack,
     now |-> now, calls |-> <<>>, path |-> "none", ret |-> NoNode,
     threw |-> FALSE, beats |-> beats, notified |-> notified]

\* what a step leaves in `last`: the call, the branch of start() it took, what
\* it returned or whether it threw, and the call before it with its result
CallRecord(op, n, delay, options, duration, path, ret, threw, prevOp, prevRet) ==
    [op |-> op, track |-> n, delay |-> delay, options |-> options,
     duration |-> duration, path |-> path, ret |-> ret, threw |-> threw,
     prevOp |-> prevOp, prevRet |-> prevRet]

\* of the call before, what matters to the next one: a loadSource and the
\* source it returned
LastCall(op, n, delay, options, duration, W) ==
    CallRecord(op, n, delay, options, duration, W.path, W.ret, W.threw,
               IF last.op = "loadSource" THEN last.op ELSE "other",
               IF last.op = "loadSource" THEN last.ret ELSE NoNode)

Commit(W, op, n, delay, options, duration) ==
    /\ W.nextNode <= MaxNodes + 1
    /\ tracks' = W.tracks
    /\ conn' = W.conn
    /\ buf' = W.buf
    /\ started' = W.started
    /\ ramps' = W.ramps
    /\ nextNode' = W.nextNode
    /\ nextTrack' = W.nextTrack
    /\ calls' = W.calls
    /\ beats' = W.beats
    /\ notified' = W.notified
    /\ last' = LastCall(op, n, delay, options, duration, W)
    /\ UNCHANGED now

\* the caller constructs the group: `source` is a node of its own making,
\* connected or not, or (from untyped JavaScript) undefined
Init ==
    \E undefinedSource \in BOOLEAN, c \in {{}, {Ext}} :
      LET given == ~undefinedSource IN
        /\ tracks = [n \in {GroupName} |->
                        TrackSingle(1, IF given THEN 1 ELSE NoNode)]
        /\ conn = [i \in NodeIds |-> IF given /\ i = 1 THEN c ELSE {}]
        /\ buf = [i \in NodeIds |-> IF given /\ i = 1 THEN "p" ELSE NoPath]
        /\ started = {}
        /\ ramps = {}
        /\ nextNode = IF given THEN 2 ELSE 1
        /\ nextTrack = 2
        /\ now = 0
        /\ last = CallRecord("new", GroupName, None, NoOptions, None,
                             "none", NoNode, FALSE, "none", NoNode)
        /\ calls = <<>>
        /\ beats = <<>>
        /\ notified = <<>>

\* calls on the primary track, the only member until newTrack adds one
Start ==
    \E delay \in Delays, options \in AdjustmentInputs, duration \in Durations :
        Commit(start(World, GroupName, delay, options, duration),
               "start", GroupName, delay, options, duration)

Stop ==
    \E delay \in Delays, options \in AdjustmentInputs :
        Commit(stop(World, GroupName, delay, options),
               "stop", GroupName, delay, options, None)

PlaySource ==
    \E path \in Paths, options \in AdjustmentInputs :
        Commit(playSource(World, GroupName, path, options),
               "playSource", GroupName, None, options, None)

LoadSource ==
    \E path \in Paths :
        Commit(loadSource(World, GroupName),
               "loadSource", GroupName, None, NoOptions, None)

Swap ==
    \E options \in SwapInputs :
        Commit(swap(World, GroupName, options),
               "swap", GroupName, None, options, None)

\* calls on any member of the group, with no arguments
MemberStart ==
    \E n \in DOMAIN tracks :
        Commit(start(World, n, None, NoOptions, None),
               "start", n, None, NoOptions, None)

MemberLoadSource ==
    \E n \in DOMAIN tracks, path \in Paths :
        Commit(loadSource(World, n), "loadSource", n, None, NoOptions, None)

\* a caller-made source is a fresh node, connected elsewhere or not at all
NewTrack ==
    \E name \in Names, path \in Paths \cup {NoPath}, given \in BOOLEAN,
       c \in {{Ext}} :
        LET W == IF given
                 THEN [World EXCEPT !.conn[nextNode] = c,
                                    !.buf[nextNode] = "p",
                                    !.nextNode = @ + 1]
                 ELSE World
            source == IF given THEN nextNode ELSE NoNode
        IN  /\ nextNode <= MaxNodes
            /\ Commit(newTrack(W, name, path, source),
                      "newTrack", name, None, NoOptions, None)

\* the audio clock advances; a gain automation that has run its course
\* leaves its gain at the value it was given.  No method of Track.ts hands
\* the clock a callback, so nothing else happens when time passes.
Tick ==
    /\ now < MaxTime
    /\ now' = now + 1
    /\ LET done == {r \in ramps : r.to <= now + 1}
       IN  /\ ramps' = ramps \ done
           /\ tracks' = [n \in DOMAIN tracks |->
                  LET mine == {r \in done : r.gain = tracks[n].id}
                  IN  IF mine = {} THEN tracks[n]
                      ELSE [tracks[n] EXCEPT !.gain =
                              (CHOOSE r \in mine :
                                  \A q \in mine : q.to <= r.to).value]]
    /\ last' = CallRecord("tick", GroupName, None, NoOptions, None,
                          "none", NoNode, FALSE, "other", NoNode)
    /\ calls' = <<>>
    /\ UNCHANGED <<conn, buf, started, nextNode, nextTrack, beats, notified>>

Next ==
    \/ Start
    \/ Stop
    \/ PlaySource
    \/ LoadSource
    \/ Swap
    \/ Tick

Spec == Init /\ [][Next]_vars

\* calls on the TrackGroup
Group == "(group)"

GroupOptions ==
    {NoOptions,
     [given |-> TRUE, ramp |-> "none", delay |-> 0, duration |-> 1,
      swap |-> "none", swapDelay |-> None]}

TrackRefs == {tracks[n].id : n \in DOMAIN tracks} \cup {GroupSelf}

GroupStart ==
    \E delay \in Delays, options \in GroupOptions, duration \in Durations :
        Commit(groupStart(World, delay, options, duration),
               "group.start", Group, delay, options, duration)

GroupStop ==
    \E delay \in {1}, options \in GroupOptions :
        Commit(groupStop(World, delay, options),
               "group.stop", Group, delay, options, None)

GroupPlaySource ==
    \E path \in Paths, options \in GroupOptions :
        Commit(groupPlaySource(World, path, options),
               "group.playSource", Group, None, options, None)

GroupLoadSource ==
    \E path \in Paths :
        Commit(groupLoadSource(World, path),
               "group.loadSource", Group, None, NoOptions, None)

GroupSwap ==
    \E options \in {NoOptions} :
        Commit(groupSwap(World, options),
               "group.swap", Group, None, options, None)

GroupVolume ==
    \E v \in {0} :
        Commit(groupVolume(World, v, NoOptions),
               "group.volume", Group, None, NoOptions, None)

GroupLoop ==
    \E enabled \in {TRUE} :
        Commit(groupLoop(World, enabled),
               "group.loop", Group, None, NoOptions, None)

GroupJump ==
    \E enabled \in {TRUE} :
        Commit(groupJump(World, enabled),
               "group.jump", Group, None, NoOptions, None)

GroupCreateBeat ==
    \E beat \in {<<"repeating", 0, 1>>} :
        /\ Len(beats) < MaxBeats
        /\ Commit(groupCreateBeat(World, beat),
                  "group.createBeat", Group, None, NoOptions, None)

GroupClearBeats ==
    Commit(groupClearBeats(World),
           "group.clearBeats", Group, None, NoOptions, None)

GroupSyncPlayTo ==
    \E target \in TrackRefs :
        Commit(groupSyncPlayTo(World, target, NoOptions),
               "group.syncPlayTo", Group, target, NoOptions, None)

GroupSyncStopTo ==
    \E target \in TrackRefs :
        Commit(groupSyncStopTo(World, target, NoOptions),
               "group.syncStopTo", Group, target, NoOptions, None)

GroupListenFor ==
    \E type \in {"beat"} :
        Commit(groupListenFor(World, type),
               "group.listenFor", Group, None, NoOptions, None)

GroupTrack ==
    \E name \in Names :
        Commit(track(World, name), "group.track", name, None, NoOptions, None)

\* newTrack(name) with neither path nor source
AddTrack ==
    \E name \in {GroupName, "a"} :
        /\ nextNode <= MaxNodes
        /\ Commit(newTrack(World, name, NoPath, NoNode),
                  "newTrack", name, None, NoOptions, None)

GroupNext ==
    \/ NewTrack
    \/ MemberStart
    \/ MemberLoadSource
    \/ Tick

GroupSpec == Init /\ [][GroupNext]_vars

BroadcastNext ==
    \/ AddTrack
    \/ MemberStart
    \/ Tick
    \/ GroupStart
    \/ GroupStop
    \/ GroupPlaySource
    \/ GroupLoadSource
    \/ GroupSwap
    \/ GroupVolume
    \/ GroupLoop
    \/ GroupJump
    \/ GroupCreateBeat
    \/ GroupClearBeats
    \/ GroupSyncPlayTo
    \/ GroupSyncStopTo
    \/ GroupListenFor
    \/ GroupTrack

BroadcastSpec == Init /\ [][BroadcastNext]_vars

(* ---- beats and synchronisation ----------------------------------------- *)
\* calls on any member of the group.  A cancel step keeps the handle in
\* last.delay, a sync step the id of the track synchronised to.
MemberOf(id) == CHOOSE n \in DOMAIN tracks : tracks[n].id = id

CreateBeat ==
    \E n \in DOMAIN tracks, beat \in BeatInputs :
        /\ Len(beats) < MaxBeats
        /\ Commit(createBeat(World, n, beat),
                  "createBeat", n, None, NoOptions, None)

Cancel ==
    \E h \in DOMAIN beats :
        Commit(beatCancel(World, h),
               "cancel", MemberOf(beats[h].track), h, NoOptions, None)

ClearBeats ==
    \E n \in DOMAIN tracks :
        Commit(clearBeats(World, n), "clearBeats", n, None, NoOptions, None)

SyncPlayTo ==
    \E n \in DOMAIN tracks, target \in DOMAIN tracks :
        Commit(syncPlayTo(World, n, tracks[target].id, NoOptions),
               "syncPlayTo", n, tracks[target].id, NoOptions, None)

SyncStopTo ==
    \E n \in DOMAIN tracks, target \in DOMAIN tracks :
        Commit(syncStopTo(World, n, tracks[target].id, NoOptions),
               "syncStopTo", n, tracks[target].id, NoOptions, None)

ListenFor ==
    \E n \in DOMAIN tracks, type \in {"beat"} :
        Commit(listenFor(World, n, type), "listenFor", n, None, NoOptions, None)

BeatNext ==
    \/ AddTrack
    \/ CreateBeat
    \/ Cancel
    \/ ClearBeats
    \/ SyncPlayTo
    \/ SyncStopTo
    \/ ListenFor
    \/ Tick

BeatSpec == Init /\ [][BeatNext]_vars

(* ---- every method, on any member --------------------------------------- *)
MemberStop ==
    \E n \in DOMAIN tracks :
        Commit(stop(World, n, None, NoOptions), "stop", n, None, NoOptions, None)

MemberPlaySource ==
    \E n \in DOMAIN tracks, path \in Paths :
        Commit(playSource(World, n, path, NoOptions),
               "playSource", n, None, NoOptions, None)

MemberSwap ==
    \E n \in DOMAIN tracks :
        Commit(swap(World, n, NoOptions), "swap", n, None, NoOptions, None)

MemberVolume ==
    \E n \in DOMAIN tracks, v \in {0} :
        Commit(volume(World, n, v, NoOptions), "volume", n, None, NoOptions, None)

MemberLoop ==
    \E n \in DOMAIN tracks, enabled \in {TRUE} :
        Commit(loop(World, n, enabled), "loop", n, None, NoOptions, None)

MemberJump ==
    \E n \in DOMAIN tracks, enabled \in {TRUE} :
        Commit(jump(World, n, enabled), "jump", n, None, NoOptions, None)

MemberCreateBeat ==
    \E n \in DOMAIN tracks, beat \in {<<"repeating", 0, 1>>} :
        /\ Len(beats) < MaxBeats
        /\ Commit(createBeat(World, n, beat),
                  "createBeat", n, None, NoOptions, None)

MemberNext ==
    \/ AddTrack
    \/ MemberStart
    \/ MemberStop
    \/ MemberLoadSource
    \/ MemberPlaySource
    \/ MemberSwap
    \/ MemberVolume
    \/ MemberLoop
    \/ MemberJump
    \/ MemberCreateBeat
    \/ ClearBeats
    \/ ListenFor
    \/ Tick

MemberSpec == Init /\ [][MemberNext]_vars

(* ---- properties -------------------------------------------------------- *)
primary == tracks[GroupName]

\* the delay a call is documented to take effect at
EffectiveDelay(delay, options) ==
    IF options.delay # None THEN options.delay
    ELSE IF delay # None THEN delay
    ELSE 0

StubCalls(fn) == {i \in DOMAIN calls : calls[i].fn = fn}

C2_SwapRoundTrip ==
    (last.op = "swap" /\ last.prevOp = "loadSource" /\ started # {}) =>
        /\ primary.playingSource = last.prevRet
        /\ primary.loadedSource = NoNode

\* C3: a start() that follows a loadSource() takes the swap path: swap is
\* called exactly once, with the options merged against the swap defaults,
\* and nothing is started directly.
C3_StartAfterLoadSwaps ==
    [][(last'.op = "start" /\ last.op = "loadSource") =>
        /\ last'.path = "swap"
        /\ Cardinality({i \in DOMAIN calls' : calls'[i].fn = "swap"}) = 1
        /\ \A i \in DOMAIN calls' : calls'[i].fn = "swap" =>
              calls'[i].options = buildOptions(last'.options, trackSwapDefault)
        /\ started' = started]_vars

\* C4: loadSource() makes the source it returns the staged source and leaves
\* the playing source and its connections as they were.
C4_LoadSourceStages ==
    [][last'.op = "loadSource" =>
        /\ tracks'[last'.track].loadedSource = last'.ret
        /\ tracks'[last'.track].playingSource = tracks[last'.track].playingSource
        /\ \A i \in 1..(nextNode - 1) : conn'[i] = conn[i]]_vars

\* C5: start() on a track that plays a source and has none staged stages a
\* clone, a new instance, and swaps; afterwards one source plays and none is
\* left staged.
C5_RestartLeavesNoClone ==
    [][(last'.op = "start"
            /\ tracks[last'.track].playingSource # NoNode
            /\ tracks[last'.track].loadedSource = NoNode) =>
        /\ last'.path = "swap"
        /\ tracks'[last'.track].playingSource # NoNode
        /\ tracks'[last'.track].loadedSource = NoNode]_vars

\* C6: start() on a track with nothing staged and nothing playing does not
\* throw, returns the track and changes neither the source slots, the load
\* flag, the gain, nor what is scheduled.
C6_StartNothingIsNoOp ==
    [][(last'.op = "start"
            /\ tracks[last'.track].playingSource = NoNode
            /\ tracks[last'.track].loadedSource = NoNode) =>
        /\ ~last'.threw
        /\ last'.ret = tracks[last'.track].id
        /\ tracks' = tracks
        /\ started' = started
        /\ ramps' = ramps
        /\ conn' = conn
        /\ nextNode' = nextNode
        /\ calls' = <<>>]_vars

C6_Witness ==
    /\ last.op = "start"
    /\ last.path = "warn"
    /\ primary.loadedSource = NoNode
    /\ primary.playingSource = NoNode

\* the delay at which the last start() scheduled its start or its swap
ScheduledDelays ==
    IF last.path = "direct"
    THEN {s.at - now : s \in {x \in started :
                                  x.node = tracks[last.track].playingSource}}
    ELSE {calls[i].options.delay : i \in StubCalls("swap")}

\* C7: start() with a duration calls stop exactly once, at the delay at
\* which it scheduled its start or swap plus the duration, on both paths;
\* without a duration it calls no stop.
C7_DurationStops ==
    (last.op = "start" /\ last.path \in {"direct", "swap"}) =>
        IF last.duration = None
        THEN StubCalls("stop") = {}
        ELSE /\ Cardinality(StubCalls("stop")) = 1
             /\ \A i \in StubCalls("stop") :
                   /\ calls[i].delay =
                        EffectiveDelay(last.delay, last.options) + last.duration
                   /\ ScheduledDelays =
                        {EffectiveDelay(last.delay, last.options)}

\* C8: playSource(path, options) leaves the track as loadSource(path) then
\* start(0, options) does, returns the source loadSource made, and when a
\* source was playing the returned source is the one swapped in.
C8_PlaySourceIsLoadThenStart ==
    [][last'.op = "playSource" =>
        /\ tracks' = start(loadSource(World, last'.track), last'.track, 0,
                           last'.options, None).tracks
        /\ last'.ret = loadSource(World, last'.track).ret
        /\ (tracks[last'.track].playingSource # NoNode =>
               tracks'[last'.track].playingSource = last'.ret)]_vars

\* C9: stop() on a track that plays a source ramps the gain to zero from the
\* effective delay on; with nothing playing it changes nothing.
C9_StopRampsToZero ==
    [][last'.op = "stop" =>
        IF tracks[last'.track].playingSource # NoNode
        THEN \E r \in ramps' :
                /\ r.gain = tracks[last'.track].id
                /\ r.value = 0
                /\ r.from = now + EffectiveDelay(last'.delay, last'.options)
        ELSE tracks' = tracks /\ ramps' = ramps /\ started' = started]_vars

\* C10: newTrack(name) throws and leaves the group's tracks as they are when
\* name is the group's name or a member's; otherwise it adds one new track
\* under name and changes no other entry.
C10_NewTrackUniqueNames ==
    [][last'.op = "newTrack" =>
        IF last'.track = GroupName \/ last'.track \in DOMAIN tracks
        THEN last'.threw /\ tracks' = tracks
        ELSE /\ ~last'.threw
             /\ DOMAIN tracks' = DOMAIN tracks \cup {last'.track}
             /\ \A m \in DOMAIN tracks : tracks'[m] = tracks[m]
             /\ tracks'[last'.track].id = nextTrack
             /\ last'.ret = nextTrack]_vars

C10_Witness ==
    /\ last.op = "newTrack"
    /\ last.threw
    /\ last.track # GroupName
    /\ last.track \in DOMAIN tracks
    /\ Cardinality(DOMAIN tracks) = 3

(* ---- properties of the group ------------------------------------------- *)
\* the state with the calls its last step reached
Here == [World EXCEPT !.calls = calls]

CallsOn(W, n) ==
    LET OnTrack(c) == c.track = n
    IN  SelectSeq(W.calls, OnTrack)

\* what a call can leave of member n.  A source made by the call itself (an
\* instance from `base` on) is described by its connections and buffer.
MemberView(W, n, base) ==
    LET t == W.tracks[n]
        staged == t.loadedSource
    IN  [id |-> t.id,
         playingSource |-> t.playingSource,
         loadedSource |-> IF staged >= base THEN NoNode ELSE staged,
         loadedNew |-> staged >= base,
         loadedConn |-> IF staged = NoNode THEN {} ELSE W.conn[staged],
         loadedBuf |-> IF staged = NoNode THEN NoPath ELSE W.buf[staged],
         playingConn |-> IF t.playingSource = NoNode THEN {}
                         ELSE W.conn[t.playingSource],
         isLoadSourceCalled |-> t.isLoadSourceCalled,
         gain |-> t.gain,
         started |-> {x \in W.started : x.node = t.playingSource},
         ramps |-> {r \in W.ramps : r.gain = t.id},
         calls |-> CallsOn(W, n)]

MemberViews(W, names, base) == [n \in names |-> MemberView(W, n, base)]

Broadcasts == {"start", "stop", "clearBeats", "syncPlayTo", "syncStopTo"}
Delegated == {"swap", "loadSource", "playSource", "createBeat", "listenFor"}

GroupOp(method) ==
    CASE method = "start" -> "group.start"
      [] method = "stop" -> "group.stop"
      [] method = "clearBeats" -> "group.clearBeats"
      [] method = "syncPlayTo" -> "group.syncPlayTo"
      [] method = "syncStopTo" -> "group.syncStopTo"
      [] method = "swap" -> "group.swap"
      [] method = "loadSource" -> "group.loadSource"
      [] method = "playSource" -> "group.playSource"
      [] method = "createBeat" -> "group.createBeat"
      [] method = "listenFor" -> "group.listenFor"

\* every order in which the members can be visited
Orders(names) ==
    {o \in [1..Cardinality(names) -> names] :
        \A i, j \in DOMAIN o : i # j => o[i] # o[j]}

\* C11: whatever is called on the group, the group has an entry under its
\* own name, primaryTrack() returns it, and it is the track the constructor
\* made.
C11_PrimaryPersists ==
    /\ GroupName \in DOMAIN tracks
    /\ primaryTrack(World).id = 1
    /\ track(World, GroupName).ret = 1

C11_Witness ==
    /\ last.op = "newTrack"
    /\ last.track = GroupName
    /\ last.threw
    /\ Cardinality(DOMAIN tracks) = 2
    /\ primary.playingSource # NoNode

\* C12: a broadcast (start, stop, clearBeats, syncPlayTo, syncStopTo) leaves
\* every member, the primary included, as one call of the method with the
\* same arguments on that member alone leaves it, whatever the order in
\* which the members are visited.  (For a sync call, last.delay holds the
\* track synchronised to.)
C12_BroadcastReachesEveryMember ==
    [][\A method \in Broadcasts : last'.op = GroupOp(method) =>
        LET a == Args(last'.delay, last'.options, last'.duration, last'.delay)
            pre == World
        IN  \A after \in {MemberViews(Here', DOMAIN tracks, nextNode)} :
            /\ \A n \in DOMAIN tracks :
                  \A alone \in {memberCall(pre, n, method, a)} :
                      after[n] = MemberView(alone, n, nextNode)
            /\ \A order \in Orders(DOMAIN tracks) :
                  \A visited \in {forEachTrack(pre, order, method, a)} :
                      MemberViews(visited, DOMAIN tracks, nextNode) = after]_vars

C12_Witness ==
    /\ last.op = "group.start"
    /\ last.duration = 1
    /\ Cardinality(DOMAIN tracks) = 2
    /\ \A n \in DOMAIN tracks :
          /\ tracks[n].playingSource # NoNode
          /\ \E i \in DOMAIN calls : calls[i].fn = "stop" /\ calls[i].track = n

\* what the primary track's own method returns for the delegated call
PrimaryResult(method) ==
    CASE method = "swap" -> swap(World, GroupName, last'.options).ret
      [] method = "loadSource" -> loadSource(World, GroupName).ret
      [] method = "playSource" ->
            playSource(World, GroupName, CHOOSE p \in Paths : TRUE,
                       last'.options).ret
      [] method = "createBeat" ->
            createBeat(World, GroupName, <<"repeating", 0, 1>>).ret
      [] method = "listenFor" -> listenFor(World, GroupName, "beat").ret

OthersUntouched ==
    \A n \in DOMAIN tracks \ {GroupName} :
        MemberView(Here', n, nextNode) = MemberView(World, n, nextNode)

\* C13 as claimed: a delegated call (swap, loadSource, playSource,
\* createBeat, listenFor) leaves every member but the primary unchanged and
\* returns what the primary track's method returns.
C13_DelegatedReturnsPrimaryResult ==
    [][\A method \in Delegated : last'.op = GroupOp(method) =>
        /\ OthersUntouched
        /\ last'.ret = PrimaryResult(method)]_vars

\* C13 as amended: a delegated call leaves every member but the primary
\* unchanged; swap, loadSource, playSource and createBeat return what the
\* primary track's method returns, and listenFor returns the group.
C13_DelegatedActsOnPrimary ==
    [][\A method \in Delegated : last'.op = GroupOp(method) =>
        /\ OthersUntouched
        /\ last'.ret = IF method = "listenFor" THEN GroupSelf
                       ELSE PrimaryResult(method)]_vars

C13_Witness ==
    /\ last.op = "group.playSource"
    /\ last.ret # NoNode
    /\ Cardinality(DOMAIN tracks) = 2
    /\ tracks["a"].playingSource # NoNode
    /\ \E i \in DOMAIN calls : calls[i].fn = "loadSource" /\ calls[i].track = GroupName

Occurrences(o, p) == {o + k * p : k \in 0..(MaxTime + 4)}

Earliest(S) == CHOOSE f \in S : \A g \in S : f <= g

\* the EXCLUDE rules in force on the track a handle belongs to
Excludes(id) ==
    {e \in DOMAIN beats : /\ beats[e].type = "exclude"
                          /\ beats[e].track = id
                          /\ ~beats[e].isCancelled}

Suppressed(id, f) ==
    \E e \in Excludes(id) :
        beats[e].origin <= f /\ f < beats[e].origin + beats[e].period

\* C15: the time field of the handle createBeat returned for a REPEATING
\* rule with origin o and period p > 0 is, at every time t, the occurrence
\* o + k * p after t with the least k >= 0 (origin 0, period 1 at t = 2
\* gives 3); rules of a track with an exclusion are left to C16.
C15_RepeatingNextFire ==
    \A h \in DOMAIN beats :
        (/\ beats[h].type = "repeating"
         /\ beats[h].period > 0
         /\ Excludes(beats[h].track) = {}) =>
            beats[h].time =
                Earliest({f \in Occurrences(beats[h].origin, beats[h].period) :
                             f > now})

\* C16: no occurrence inside the window [origin, origin + period) of an
\* EXCLUDE rule of the same track is dispatched, an EXCLUDE rule is never
\* dispatched itself, and a REPEATING rule of a track with an EXCLUDE rule
\* reports its next occurrence outside every window (origin 0, period 1 with
\* an exclusion of [1, 2) at t = 0 reports 2).
C16_ExcludeSuppresses ==
    /\ \A i \in DOMAIN notified :
          /\ beats[notified[i].beat].type # "exclude"
          /\ ~Suppressed(beats[notified[i].beat].track, notified[i].time)
    /\ \A h \in DOMAIN beats :
          (/\ beats[h].type = "repeating"
           /\ beats[h].period > 0
           /\ ~beats[h].isCancelled
           /\ Excludes(beats[h].track) # {}) =>
              beats[h].time =
                  Earliest({f \in Occurrences(beats[h].origin, beats[h].period) :
                               f > now /\ ~Suppressed(beats[h].track, f)})

\* C17: cancel() on a handle sets its isCancelled, a set flag stays set, and
\* nothing is dispatched for a handle cancelled before.
C17_CancelIsFinal ==
    [][/\ last'.op = "cancel" => beats'[last'.delay].isCancelled
       /\ \A h \in DOMAIN beats :
             beats[h].isCancelled => (h \in DOMAIN beats' /\ beats'[h].isCancelled)
       /\ \A i \in DOMAIN notified' \ DOMAIN notified :
             ~beats[notified'[i].beat].isCancelled]_vars

\* C18: clearBeats() on a track sets isCancelled on every handle the track's
\* createBeat returned before, and dispatches nothing.
C18_ClearBeatsCancelsAll ==
    [][last'.op = "clearBeats" =>
        /\ \A h \in DOMAIN beats :
              beats[h].track = tracks[last'.track].id =>
                  (h \in DOMAIN beats' /\ beats'[h].isCancelled)
        /\ notified' = notified]_vars

\* the rules of a track that fire at time t
DueAt(id, t) ==
    {h \in DOMAIN beats :
        /\ beats[h].track = id
        /\ ~beats[h].isCancelled
        /\ ~Suppressed(id, t)
        /\ \/ /\ beats[h].type = "repeating"
              /\ beats[h].period > 0
              /\ t \in Occurrences(beats[h].origin, beats[h].period)
           \/ /\ beats[h].type = "precise"
              /\ beats[h].origin = t}

C20_SyncFollowsBeats ==
    [][/\ last'.op \in {"syncPlayTo", "syncStopTo"} => beats' = beats
       /\ (/\ last.op \in {"syncPlayTo", "syncStopTo"}
           /\ now' > now
           /\ DueAt(last.delay, now') # {}) =>
              IF last.op = "syncPlayTo"
              THEN start(World', last.track, None, last.options, None).started
                      \subseteq started'
              ELSE \E i \in DOMAIN calls' :
                      calls'[i].fn = "stop" /\ calls'[i].track = last.track]_vars

(* ---- properties of swaps and of the direct start ------------------------ *)
ConnectedToGain(n, node) == tracks[n].id \in conn[node]

C22_CrossSwapRamps ==
    [][/\ (/\ last'.op = "swap"
           /\ last'.options.swap = "cross"
           /\ last'.options.duration = 1
           /\ last'.options.delay = 0
           /\ primary.playingSource # NoNode) =>
              LET issued == ramps' \ ramps
              IN  /\ Cardinality(issued) = 2
                  /\ \A r \in issued : r.from = now /\ r.to = now + 1
       /\ (/\ last.op = "swap"
           /\ last.options.swap = "cross"
           /\ primary.playingSource # NoNode
           /\ now' = now + 1) =>
              primary.id \in conn'[primary'.playingSource]]_vars

\* C23: an OUT_IN swap ramps the old source out over [t0, t0 + duration] and
\* starts the new source's ramp at t0 + duration + swapDelay, not before the
\* ramp out has ended; an IN_OUT swap ramps the new source in over
\* [t0, t0 + duration] and starts the old source's ramp out no earlier than
\* that; the swap start() calls without a strategy is OUT_IN.
C23_SequentialSwapOrder ==
    [][/\ (/\ last'.op = "swap"
           /\ last'.options.swap \in {"outIn", "inOut"}
           /\ primary.playingSource # NoNode) =>
              LET o == last'.options
                  t0 == now + o.delay
                  gap == Coalesce(o.swapDelay, 0)
                  issued == ramps' \ ramps
              IN  \E first, second \in issued :
                      /\ first.from = t0
                      /\ first.to = t0 + o.duration
                      /\ second.from >= first.to
                      /\ o.swap = "outIn" => second.from = first.to + gap
       /\ (/\ last'.op = "start"
           /\ last'.path = "swap"
           /\ last'.options.swap = "none") =>
              \A i \in DOMAIN calls' :
                  calls'[i].fn = "swap" => calls'[i].options.swap = "outIn"]_vars

\* C24: a start(delay, options) that takes the swap path calls swap with an
\* adjustment whose delay is options.delay ?? delay ?? 0, the delay its
\* duration-based stop is computed from.
C24_SwapPathKeepsDelay ==
    (last.op = "start" /\ last.path = "swap") =>
        /\ StubCalls("swap") # {}
        /\ \A i \in StubCalls("swap") :
              calls[i].options.delay = EffectiveDelay(last.delay, last.options)

\* a step in which start() took the direct path, by itself or in playSource
DirectStart == last'.op \in {"start", "playSource"} /\ last'.path = "direct"

\* C25: a direct start moves the staged source to the playing slot: the
\* staged slot is left empty, the playing slot holds that source, and the
\* source's only connection is the one to this track's gain node.
C25_DirectStartMovesStaged ==
    [][DirectStart =>
        LET n == last'.track
            src == tracks[n].loadedSource
        IN  /\ src # NoNode
            /\ tracks'[n].loadedSource = NoNode
            /\ tracks'[n].playingSource = src
            /\ conn'[src] = {tracks[n].id}]_vars

C25_Witness ==
    /\ last.op = "start"
    /\ last.path = "direct"
    /\ primary.loadedSource = NoNode
    /\ primary.playingSource # NoNode
    /\ conn[primary.playingSource] = {primary.id}

\* C26: a direct start sets the gain to zero and issues one ramp, to the
\* level the gain had before; when a ramp has run to its end the gain is at
\* the ramp's target.
C26_DirectStartKeepsGain ==
    [][/\ DirectStart =>
            LET n == last'.track
                issued == ramps' \ ramps
            IN  /\ tracks'[n].gain = 0
                /\ issued # {}
                /\ \A r \in issued :
                      r.gain = tracks[n].id /\ r.value = tracks[n].gain
       /\ now' > now =>
            \A n \in DOMAIN tracks :
                \A r \in ramps :
                    (/\ r.gain = tracks[n].id
                     /\ r.to <= now'
                     /\ \A q \in ramps : q.gain = r.gain => q.to <= r.to) =>
                        tracks'[n].gain = r.value]_vars

C26_Witness ==
    /\ last.op = "tick"
    /\ primary.playingSource # NoNode
    /\ primary.gain = 1
    /\ ramps = {}
    /\ started # {}

\* C27: whatever is called on a track, its staged and its playing source,
\* when it has both, are different instances; each slot holds a source made
\* so far or nothing, so the track is Idle, Staged, Playing or
\* Playing+Staged.
C27_SlotsHoldDifferentSources ==
    \A n \in DOMAIN tracks :
        LET t == tracks[n]
        IN  /\ t.loadedSource \in {NoNode} \cup 1..(nextNode - 1)
            /\ t.playingSource \in {NoNode} \cup 1..(nextNode - 1)
            /\ (t.loadedSource # NoNode /\ t.playingSource # NoNode) =>
                  t.loadedSource # t.playingSource

C27_Witness ==
    /\ last.op = "swap"
    /\ last.track = "a"
    /\ tracks["a"].playingSource # NoNode
    /\ tracks["a"].loadedSource # NoNode
    /\ primary.playingSource # NoNode
    /\ primary.loadedSource = NoNode

TrackOps ==
    {"start", "stop", "loadSource", "playSource", "swap", "volume", "loop",
     "jump", "createBeat", "clearBeats", "listenFor"}

\* C28: a method called on one track leaves the source slots, the load flag
\* and the gain of every other track of the group as they were.
C28_OtherTracksUntouched ==
    [][last'.op \in TrackOps =>
        \A m \in DOMAIN tracks \ {last'.track} :
            /\ m \in DOMAIN tracks'
            /\ tracks'[m].loadedSource = tracks[m].loadedSource
            /\ tracks'[m].playingSource = tracks[m].playingSource
            /\ tracks'[m].isLoadSourceCalled = tracks[m].isLoadSourceCalled
            /\ tracks'[m].gain = tracks[m].gain]_vars

C28_Witness ==
    /\ last.op = "start"
    /\ last.track = "a"
    /\ last.path = "direct"
    /\ tracks["a"].gain = 0
    /\ primary.playingSource # NoNode
    /\ primary.gain = 1

\* a step in which start() ran on the primary track
StartRan == last'.op \in {"start", "playSource"}

\* C29: start() takes the direct path only while nothing is playing, moving
\* the source the constructor was given; a playing source stays, so the path
\* is taken at most once; with a source playing start() takes the swap
\* path, with none and nothing staged it is the no-source no-op; and a set
\* load flag stays set.
C29_DirectStartAtMostOnce ==
    [][/\ DirectStart =>
            /\ primary.playingSource = NoNode
            /\ ~primary.isLoadSourceCalled
            /\ primary'.playingSource = 1
       /\ primary.playingSource # NoNode =>
            /\ primary'.playingSource = primary.playingSource
            /\ StartRan => last'.path = "swap"
       /\ (StartRan /\ primary.playingSource = NoNode) =>
            last'.path = IF primary.loadedSource # NoNode THEN "direct" ELSE "warn"
       /\ primary.isLoadSourceCalled => primary'.isLoadSourceCalled]_vars

C29_Witness ==
    /\ last.op = "start"
    /\ last.path = "swap"
    /\ primary.playingSource = 1
    /\ primary.isLoadSourceCalled
    /\ primary.loadedSource \notin {NoNode, 1}
    /\ now > 0

====
